---- MODULE Spec2Model ----
(***************************************************************************)
(* Model of the Isolation game agent of game_agent.py: custom_score,       *)
(* CustomPlayer.get_move, CustomPlayer.minimax and CustomPlayer.alphabeta. *)
(* One behaviour is one call of get_move on one position; the recursion of *)
(* the search is an explicit stack of frames so that the deadline check,   *)
(* the Timeout exception and its unwinding are visible steps.              *)
(* The Board (isolation.Board) is not part of game_agent.py; it is         *)
(* modelled as the Position collaborator the agent consumes: knight moves  *)
(* on a small grid, visited cells stay blocked.                            *)
(***************************************************************************)
EXTENDS Integers, Sequences, FiniteSets, TLC

\* ---------------------------------------------------------------- bounds
Width == 3
Height == 3
MaxDepth == 3
MaxTicks == 4

\* ------------------------------------------------------ program constants
TIMER_THRESHOLD == 10
AlphabetaDepth == 3
theta0 == 0
theta1 == 1
theta2 == -1

NoMove == <<-1, -1>>
Unset == <<>>
Methods == {"minimax", "alphabeta", "invalid_name"}

\* ------------------------------------------------- Board (the Position)
Cells == (0 .. Height - 1) \X (0 .. Width - 1)

Directions ==
  << <<-2, -1>>, <<-2, 1>>, <<-1, -2>>, <<-1, 2>>,
     <<1, -2>>, <<1, 2>>, <<2, -1>>, <<2, 1>> >>

get_opponent(game, player) == 3 - player

get_player_location(game, player) == game.loc[player]

move_is_legal(game, m) == m \in Cells /\ m \notin game.blocked

get_legal_moves(game, player) ==
  LET at == game.loc[player]
      cand == [i \in 1 .. Len(Directions) |->
                 <<at[1] + Directions[i][1], at[2] + Directions[i][2]>>]
  IN  SelectSeq(cand, LAMBDA m : move_is_legal(game, m))

forecast_move(game, m) ==
  [blocked |-> game.blocked \cup {m},
   loc     |-> [game.loc EXCEPT ![game.active] = m],
   active  |-> 3 - game.active]

Positions ==
  { [blocked |-> {a, b}, loc |-> <<a, b>>, active |-> p] :
      a \in Cells, b \in Cells, p \in 1 .. 2 } \
  { [blocked |-> {a}, loc |-> <<a, a>>, active |-> p] : a \in Cells, p \in 1 .. 2 }

\* ------------------------------------------------------------ custom_score
custom_score(game, player) ==
  LET my_moves == Len(get_legal_moves(game, player))
      opponent_moves == Len(get_legal_moves(game, get_opponent(game, player)))
  IN  theta0 + (theta1 * my_moves) + (theta2 * opponent_moves)

\* --------------------------------- Python's order on (score, (row, col))
TupleLess(a, b) ==
  \/ a[1] < b[1]
  \/ /\ a[1] = b[1]
     /\ \/ a[2][1] < b[2][1]
        \/ a[2][1] = b[2][1] /\ a[2][2] < b[2][2]

Range(s) == { s[i] : i \in 1 .. Len(s) }

max(scores) == CHOOSE x \in Range(scores) : \A y \in Range(scores) : ~TupleLess(x, y)

min(scores) == CHOOSE x \in Range(scores) : \A y \in Range(scores) : ~TupleLess(y, x)

\* ------------------------------------------------- the pieces of minimax
\* line 201: no legal moves, score for the player to move
TerminalValue(game) == <<custom_score(game, game.active), NoMove>>

\* lines 205-208: depth exhausted
DepthLimitValue(game, maximizing_player) ==
  LET score_player == IF maximizing_player THEN 2 ELSE 1
  IN  <<custom_score(game, score_player), get_player_location(game, score_player)>>

\* lines 214-217
BestValue(scores, maximizing_player) ==
  IF maximizing_player THEN max(scores) ELSE min(scores)

\* line 213: the flag every recursive call is made with
ChildMaximizing(maximizing_player) == FALSE

\* minimax run to completion (no Timeout)
RECURSIVE minimax(_, _, _)
minimax(game, depth, maximizing_player) ==
  LET legal_moves == get_legal_moves(game, game.active)
  IN  IF Len(legal_moves) <= 0 THEN TerminalValue(game)
      ELSE IF depth = 0 THEN DepthLimitValue(game, maximizing_player)
      ELSE BestValue(
             [i \in 1 .. Len(legal_moves) |->
                minimax(forecast_move(game, legal_moves[i]), depth - 1,
                        ChildMaximizing(maximizing_player))],
             maximizing_player)

\* number of minimax calls (each samples time_left once) of a completed search
RECURSIVE MinimaxCalls(_, _)
MinimaxCalls(game, depth) ==
  LET legal_moves == get_legal_moves(game, game.active)
      Sum[i \in 0 .. Len(legal_moves)] ==
        IF i = 0 THEN 0
        ELSE Sum[i - 1] + MinimaxCalls(forecast_move(game, legal_moves[i]), depth - 1)
  IN  IF Len(legal_moves) <= 0 \/ depth = 0 THEN 1
      ELSE 1 + Sum[Len(legal_moves)]

\* ------------------------------------------------------------------ state
VARIABLES
  game,           \* the position get_move is called on
  search_depth,   \* self.search_depth
  iterative,      \* self.iterative
  method,         \* self.method
  current_depth,  \* self.current_depth
  timeRemaining,  \* what the time_left callback returns next
  clockRuns,      \* whether the caller's clock advances between samples
  pc,             \* get_move: "idle", "search", "done"
  stack,          \* pending minimax / alphabeta frames, root first
  move,           \* get_move's local `move`
  result,         \* what get_move returned (Unset: nothing)
  outcome,        \* "none", "returned", "InvalidMethod"
  exc,            \* exception in flight: "none" or "Timeout"
  timedOut,       \* a Timeout was raised during this get_move
  calls           \* how often each collaborator has been called

vars == <<game, search_depth, iterative, method, current_depth, timeRemaining,
          clockRuns, pc, stack, move, result, outcome, exc, timedOut, calls>>

config == <<game, search_depth, iterative, method, clockRuns>>

NoCalls ==
  [minimax |-> 0, alphabeta |-> 0, time_left |-> 0, legal |-> 0,
   forecast |-> 0, score |-> 0]

Frame(fn, g, depth, maximizing_player) ==
  [fn |-> fn, game |-> g, depth |-> depth,
   maximizing_player |-> maximizing_player,
   legal_moves |-> <<>>, scores |-> <<>>, pc |-> "enter"]

Top == stack[Len(stack)]

Init ==
  /\ game \in Positions
  /\ search_depth \in 1 .. MaxDepth
  /\ iterative \in BOOLEAN
  /\ method \in Methods
  /\ current_depth = 0
  /\ clockRuns \in BOOLEAN
  /\ timeRemaining \in (TIMER_THRESHOLD - 1) .. (TIMER_THRESHOLD + MaxTicks)
  /\ clockRuns \/ timeRemaining = TIMER_THRESHOLD + MaxTicks
  /\ pc = "idle"
  /\ stack = <<>>
  /\ move = NoMove
  /\ result = Unset
  /\ outcome = "none"
  /\ exc = "none"
  /\ timedOut = FALSE
  /\ calls = NoCalls

\* one call of self.time_left(): the clock moves on between samples
Sample == timeRemaining' = IF clockRuns THEN timeRemaining - 1 ELSE timeRemaining

\* `return v` of the top frame: the caller's line 213 appends it, or
\* get_move's `_, move = ...` takes it and get_move returns move (line 162)
Return(v) ==
  IF Len(stack) = 1
  THEN /\ stack' = <<>>
       /\ move' = v[2]
       /\ result' = v[2]
       /\ outcome' = "returned"
       /\ pc' = "done"
  ELSE /\ stack' = [SubSeq(stack, 1, Len(stack) - 1)
                      EXCEPT ![Len(stack) - 1].scores = Append(@, v)]
       /\ UNCHANGED <<move, result, outcome, pc>>

\* `raise Timeout()`
Raise ==
  /\ exc' = "Timeout"
  /\ timedOut' = TRUE
  /\ UNCHANGED <<stack, move, result, outcome, pc>>

\* ------------- faulty variants of the actions, to test the properties
\* get_move with a bare `except:` - InvalidMethod is swallowed like Timeout
GetMoveSwallow ==
  /\ pc = "idle"
  /\ current_depth' = 0
  /\ move' = NoMove
  /\ IF method = "minimax"
     THEN /\ stack' = <<Frame("minimax", game, search_depth, TRUE)>>
          /\ calls' = [calls EXCEPT !.minimax = @ + 1]
          /\ pc' = "search"
          /\ UNCHANGED <<result, outcome>>
     ELSE IF method = "alphabeta"
     THEN /\ stack' = <<Frame("alphabeta", game, AlphabetaDepth, TRUE)>>
          /\ calls' = [calls EXCEPT !.alphabeta = @ + 1]
          /\ pc' = "search"
          /\ UNCHANGED <<result, outcome>>
     ELSE /\ outcome' = "returned"
          /\ result' = NoMove
          /\ pc' = "done"
          /\ UNCHANGED <<stack, calls>>
  /\ UNCHANGED <<config, timeRemaining, exc, timedOut>>

\* get_move without the `except Timeout` clause - the Timeout reaches the caller
GetMovePropagate ==
  /\ pc = "search" /\ exc = "Timeout" /\ stack = <<>>
  /\ outcome' = "Timeout"
  /\ pc' = "done"
  /\ UNCHANGED <<config, current_depth, timeRemaining, stack, move, result, exc,
                 timedOut, calls>>

\* minimax with the deadline check moved below the terminal and depth tests
MinimaxEnterLateCheck ==
  /\ pc = "search" /\ exc = "none" /\ stack # <<>>
  /\ Top.fn = "minimax" /\ Top.pc = "enter"
  /\ Sample
  /\ LET legal_moves == get_legal_moves(Top.game, Top.game.active)
     IN  IF Len(legal_moves) <= 0
         THEN /\ Return(TerminalValue(Top.game))
              /\ calls' = [calls EXCEPT !.legal = @ + 1, !.score = @ + 1]
              /\ UNCHANGED <<exc, timedOut>>
         ELSE IF Top.depth = 0
         THEN /\ Return(DepthLimitValue(Top.game, Top.maximizing_player))
              /\ calls' = [calls EXCEPT !.legal = @ + 1, !.score = @ + 1]
              /\ UNCHANGED <<exc, timedOut>>
         ELSE IF timeRemaining < TIMER_THRESHOLD
         THEN /\ Raise
              /\ calls' = [calls EXCEPT !.time_left = @ + 1, !.legal = @ + 1]
         ELSE /\ stack' = [stack EXCEPT ![Len(stack)].legal_moves = legal_moves,
                                        ![Len(stack)].pc = "loop"]
              /\ calls' = [calls EXCEPT !.time_left = @ + 1, !.legal = @ + 1]
              /\ UNCHANGED <<move, result, outcome, pc, exc, timedOut>>
  /\ UNCHANGED <<config, current_depth>>

\* get_move, lines 136-155: entry and dispatch
GetMove ==
  /\ pc = "idle"
  /\ current_depth' = 0
  /\ move' = NoMove
  /\ IF method = "minimax"
     THEN /\ stack' = <<Frame("minimax", game, search_depth, TRUE)>>
          /\ calls' = [calls EXCEPT !.minimax = @ + 1]
          /\ pc' = "search"
          /\ UNCHANGED <<result, outcome>>
     ELSE IF method = "alphabeta"
     THEN /\ stack' = <<Frame("alphabeta", game, AlphabetaDepth, TRUE)>>
          /\ calls' = [calls EXCEPT !.alphabeta = @ + 1]
          /\ pc' = "search"
          /\ UNCHANGED <<result, outcome>>
     ELSE /\ outcome' = "InvalidMethod"
          /\ pc' = "done"
          /\ UNCHANGED <<stack, calls, result>>
  /\ UNCHANGED <<config, timeRemaining, exc, timedOut>>

\* minimax, lines 196-208: deadline check, terminal test, depth test
MinimaxEnter ==
  /\ pc = "search" /\ exc = "none" /\ stack # <<>>
  /\ Top.fn = "minimax" /\ Top.pc = "enter"
  /\ Sample
  /\ IF timeRemaining < TIMER_THRESHOLD
     THEN /\ Raise
          /\ calls' = [calls EXCEPT !.time_left = @ + 1]
     ELSE LET legal_moves == get_legal_moves(Top.game, Top.game.active)
          IN  IF Len(legal_moves) <= 0
              THEN /\ Return(TerminalValue(Top.game))
                   /\ calls' = [calls EXCEPT !.time_left = @ + 1, !.legal = @ + 1,
                                             !.score = @ + 1]
                   /\ UNCHANGED <<exc, timedOut>>
              ELSE IF Top.depth = 0
              THEN /\ Return(DepthLimitValue(Top.game, Top.maximizing_player))
                   /\ calls' = [calls EXCEPT !.time_left = @ + 1, !.legal = @ + 1,
                                             !.score = @ + 1]
                   /\ UNCHANGED <<exc, timedOut>>
              ELSE /\ stack' = [stack EXCEPT ![Len(stack)].legal_moves = legal_moves,
                                             ![Len(stack)].pc = "loop"]
                   /\ calls' = [calls EXCEPT !.time_left = @ + 1, !.legal = @ + 1]
                   /\ UNCHANGED <<move, result, outcome, pc, exc, timedOut>>
  /\ UNCHANGED <<config, current_depth>>

\* minimax, lines 211-213: forecast the next move and recurse
MinimaxIter ==
  /\ pc = "search" /\ exc = "none" /\ stack # <<>>
  /\ Top.fn = "minimax" /\ Top.pc = "loop"
  /\ Len(Top.scores) < Len(Top.legal_moves)
  /\ LET m == Top.legal_moves[Len(Top.scores) + 1]
         new_game == forecast_move(Top.game, m)
     IN  stack' = Append(stack, Frame("minimax", new_game, Top.depth - 1,
                                      ChildMaximizing(Top.maximizing_player)))
  /\ calls' = [calls EXCEPT !.forecast = @ + 1, !.minimax = @ + 1]
  /\ UNCHANGED <<config, current_depth, timeRemaining, pc, move, result, outcome,
                 exc, timedOut>>

\* minimax, lines 214-221: pick the best pair and return it
MinimaxCombine ==
  /\ pc = "search" /\ exc = "none" /\ stack # <<>>
  /\ Top.fn = "minimax" /\ Top.pc = "loop"
  /\ Len(Top.scores) = Len(Top.legal_moves)
  /\ Return(BestValue(Top.scores, Top.maximizing_player))
  /\ UNCHANGED <<config, current_depth, timeRemaining, exc, timedOut, calls>>

\* alphabeta, lines 296-302
AlphabetaEnter ==
  /\ pc = "search" /\ exc = "none" /\ stack # <<>>
  /\ Top.fn = "alphabeta" /\ Top.pc = "enter"
  /\ Sample
  /\ calls' = [calls EXCEPT !.time_left = @ + 1]
  /\ IF timeRemaining < TIMER_THRESHOLD
     THEN Raise
     ELSE /\ Return(<<0, NoMove>>)
          /\ UNCHANGED <<exc, timedOut>>
  /\ UNCHANGED <<config, current_depth>>

\* a Timeout in flight leaves a frame of minimax / alphabeta: no handler there
Unwind ==
  /\ pc = "search" /\ exc = "Timeout" /\ stack # <<>>
  /\ stack' = SubSeq(stack, 1, Len(stack) - 1)
  /\ UNCHANGED <<config, current_depth, timeRemaining, pc, move, result, outcome,
                 exc, timedOut, calls>>

\* get_move, lines 157-162: except Timeout: pass; return move
GetMoveCatch ==
  /\ pc = "search" /\ exc = "Timeout" /\ stack = <<>>
  /\ exc' = "none"
  /\ result' = move
  /\ outcome' = "returned"
  /\ pc' = "done"
  /\ UNCHANGED <<config, current_depth, timeRemaining, stack, move, timedOut, calls>>

Next ==
  \/ GetMove
  \/ MinimaxEnter
  \/ MinimaxIter
  \/ MinimaxCombine
  \/ AlphabetaEnter
  \/ Unwind
  \/ GetMoveCatch

Spec == Init /\ [][Next]_vars


\* ------------------------------------------------------------ properties
RootLegal == Range(get_legal_moves(game, game.active))

\* samples of time_left that pass the threshold test before the deadline
PassingSamples == (timeRemaining + calls.time_left) - TIMER_THRESHOLD + 1

AtCallStart ==
  /\ pc = "search" /\ exc = "none" /\ stack # <<>>
  /\ Top.pc = "enter"

\* C1: with no deadline expiring, get_move with method 'alphabeta' returns the
\* move that minimax selects for the same position and the same search_depth.
C1_AlphabetaSelectsMinimaxMove ==
  (pc = "done" /\ method = "alphabeta" /\ ~timedOut)
    => result = minimax(game, search_depth, TRUE)[2]

\* C2: every move get_move returns is a legal move of the root position's
\* active player or the sentinel (-1, -1).
C2_ReturnedMoveLegalOrSentinel ==
  (pc = "done" /\ outcome = "returned") => result \in RootLegal \cup {NoMove}

\* C3: a Timeout raised in any recursive call unwinds every pending frame, is
\* caught only in get_move (never while a search frame is pending, never
\* reaching the caller), and get_move returns the value its variable `move`
\* held when the Timeout was raised: the best move established so far, the
\* sentinel if none was.
C3_TimeoutCaughtOnlyInGetMove ==
  /\ [](exc = "Timeout" => pc = "search" /\ outcome = "none")
  /\ []((pc = "done" /\ timedOut) =>
          /\ stack = <<>>
          /\ exc = "none"
          /\ outcome = "returned"
          /\ result = move)
  /\ [][exc = "Timeout" =>
          /\ move' = move
          /\ IF stack # <<>>
             THEN exc' = "Timeout" /\ stack' = SubSeq(stack, 1, Len(stack) - 1)
             ELSE exc' = "none" /\ pc' = "done"]_vars

C3_Witness ==
  /\ pc = "done" /\ timedOut /\ outcome = "returned"
  /\ calls.forecast >= 2
  /\ calls.score >= 1

\* C4: with iterative=True, when the deadline lets a depth-1 search complete
\* and expires during the depth-2 search that follows it, get_move returns
\* the move of the depth-1 search.
C4_IterativeReturnsDepth1Move ==
  (/\ pc = "done" /\ method = "minimax" /\ iterative /\ clockRuns
   /\ PassingSamples >= MinimaxCalls(game, 1)
   /\ PassingSamples < MinimaxCalls(game, 1) + MinimaxCalls(game, 2))
    => result = minimax(game, 1, TRUE)[2]

\* C5: on a position without legal moves get_move returns the sentinel and
\* calls neither minimax, alphabeta, time_left nor the evaluation function.
C5_NoSearchWithoutLegalMoves ==
  (RootLegal = {} /\ method \in {"minimax", "alphabeta"})
    => /\ calls = NoCalls
       /\ pc = "done" => (outcome = "returned" /\ result = NoMove)

\* C6: with a method that is neither 'minimax' nor 'alphabeta', get_move
\* raises InvalidMethod to its caller: it returns no move, the error is not
\* swallowed, and no search call is made, whatever the position and the clock.
C6_InvalidMethodRaised ==
  method \notin {"minimax", "alphabeta"} =>
    /\ calls = NoCalls
    /\ stack = <<>>
    /\ ~timedOut
    /\ exc = "none"
    /\ result = Unset
    /\ outcome # "returned"
    /\ pc \in {"idle", "done"}
    /\ pc = "done" => outcome = "InvalidMethod"

C6_Witness ==
  /\ pc = "done" /\ outcome = "InvalidMethod"
  /\ method = "invalid_name"
  /\ timeRemaining < TIMER_THRESHOLD
  /\ RootLegal # {}

\* C7: minimax with search_depth 1 and no deadline expiry returns the legal
\* move whose forecast position scores highest for the player to move.
C7_Depth1PicksHighestScore ==
  (/\ pc = "done" /\ method = "minimax" /\ search_depth = 1 /\ ~timedOut
   /\ RootLegal # {})
    => /\ result \in RootLegal
       /\ \A m \in RootLegal :
            custom_score(forecast_move(game, result), game.active)
              >= custom_score(forecast_move(game, m), game.active)

\* C8: the maximizing flag alternates with every ply: the frame at ply k of a
\* maximizing root is maximizing exactly when k is even, and it combines its
\* children accordingly.
C8_FlagAlternatesPerPly ==
  \A i \in 1 .. Len(stack) :
    stack[i].fn = "minimax" => stack[i].maximizing_player = (i % 2 = 1)

\* C9: in every call of minimax and alphabeta the deadline check comes first:
\* a call that starts with the time remaining below the threshold raises
\* Timeout without enumerating moves, forecasting or evaluating, and once the
\* Timeout is raised no search, forecast or evaluation call happens any more.
C9_DeadlineCheckFirst ==
  [][/\ (AtCallStart /\ timeRemaining < TIMER_THRESHOLD) =>
          /\ exc' = "Timeout"
          /\ stack' = stack
          /\ calls' = [calls EXCEPT !.time_left = @ + 1]
     /\ exc = "Timeout" => calls' = calls]_vars

C9_Witness ==
  /\ exc = "Timeout"
  /\ Len(stack) >= 3
  /\ Top.pc = "enter"
  /\ calls.forecast >= 2
  /\ calls.score >= 1

\* C10: a minimax call at depth 0 on a position with legal moves expands no
\* child and returns the score of the player who has just moved into the
\* position (its non-active player) paired with that player's location.
C10_LeafScoresPlayerWhoMoved ==
  [][(/\ AtCallStart /\ Top.fn = "minimax" /\ Top.depth = 0
      /\ timeRemaining >= TIMER_THRESHOLD
      /\ Len(get_legal_moves(Top.game, Top.game.active)) > 0)
       => LET g == Top.game
              mover == get_opponent(g, g.active)
              parent == stack'[Len(stack')]
          IN  /\ Len(stack') = Len(stack) - 1
              /\ calls'.forecast = calls.forecast
              /\ parent.scores[Len(parent.scores)]
                   = <<custom_score(g, mover), get_player_location(g, mover)>>]_vars
====
